---- MODULE Spec2Model ----
(***************************************************************************)
(* LemonyUtils: the schema-driven data-access layer in its blocking        *)
(* (sqlitemplate.py, reader/writer locked, one connection per call) and    *)
(* its cooperative (async_sqlitemplate.py, one lazily opened connection    *)
(* per instance) variant.                                                  *)
(*                                                                         *)
(* The storage engine is SQLite as driven by Python's sqlite3 module in    *)
(* its default (legacy) transaction mode: an INSERT/UPDATE/DELETE opens a  *)
(* transaction implicitly, and nothing is committed unless the code        *)
(* commits.  The statements modelled are the ones the source renders.      *)
(*                                                                         *)
(* The decorators of custom_decorators.py (Fallbacker, CacheWrapper,       *)
(* Scheduler) are independent of the data layer; each is a unit of its own *)
(* specification, DecoSpec.                                                *)
(***************************************************************************)
EXTENDS Integers, Sequences, FiniteSets, TLC

VARIABLES
    engine,     \* "sync" (sqlitemplate.py) or "async" (async_sqlitemplate.py)
    phase,      \* "new" | "rejected" (TableDef raised) | "failed" | "ready"
    tabledef,   \* the TableDef built by dbcls_factory: sequence of RowDef
    self,       \* the engine's fields _tabledef, _datadef, _datadef_with_id
    disk,       \* the committed content of the database file
    rw,         \* self._lock of the blocking engine: [readers, writer]
    pc,         \* position of every caller (thread or task)
    op,         \* blocking engine: the method a thread is inside
    myconn,     \* cooperative engine: the connection a task is working on
    selfConn,   \* cooperative engine: self._conn (0 is None)
    conns,      \* cooperative engine: every connection opened so far
    reopen,     \* history: the task's call found self._conn None after a close
    addLog,     \* history: the ids returned by add, in order of return
    ret,        \* the last call that returned or raised
    unit,       \* what is exercised: "db", or one decorator of custom_decorators.py
    fb,         \* a Fallbacker: _tol_excs, _fallback_funcs, and its last call
    cw,         \* a CacheWrapper: _cache, _last_call, _lock, its callers, the clock
    sch         \* a Scheduler: its thread, and the invocations of the function

dbVars == <<engine, phase, tabledef, self, disk, rw, pc, op, myconn, selfConn, conns,
            reopen, addLog, ret>>
decoVars == <<unit, fb, cw, sch>>
vars == <<dbVars, decoVars>>

---------------------------------------------------------------------------
\* Bounds of the model.

\* successful add calls in one run (so ids range over 1..MaxAdds)
MaxAdds == 2
\* connections a cooperative engine opens in one run
MaxConns == 2

\* the concurrent callers: threads of the blocking engine, tasks of the
\* cooperative one
Callers == {1, 2}

---------------------------------------------------------------------------
\* Values.  A value is NULL (Python None), a text or an integer; texts are
\* sequences of characters so that LIKE can be computed.

NULL == <<>>
TextVal(s) == <<"T">> \o s
IntVal(n) == <<"I", n>>
IsText(v) == v # NULL /\ Head(v) = "T"
Chars(v) == Tail(v)

Alphabet == {"a", "A", "_"}

\* the texts callers use as search filters: one character each
FilterTexts == {TextVal(<<c>>) : c \in Alphabet}
\* the texts callers store
TitleInputs == {TextVal(<<"a", "A">>), TextVal(<<"A">>)}
\* the integers callers store, and the ones they search for
PagesInputs == {IntVal(1)}
PagesFilters == {IntVal(1), IntVal(2)}

\* Callers pass values of the declared type of the field, or None.
InputsOfType(t) ==
    IF t = "str" THEN TitleInputs \cup {NULL}
    ELSE IF t = "int" THEN PagesInputs \cup {NULL}
    ELSE {NULL}

FiltersOfType(t) ==
    IF t = "str" THEN FilterTexts \cup {NULL}
    ELSE IF t = "int" THEN PagesFilters \cup {NULL}
    ELSE {NULL}

---------------------------------------------------------------------------
\* Small helpers on sequences and ordered dictionaries.

Range(s) == {s[i] : i \in DOMAIN s}

\* a Python dict: insertion-ordered keys and the mapping
EmptyDict == [keys |-> <<>>, at |-> <<>>]
DictUpdate(d, k, v) ==
    IF k \in Range(d.keys)
    THEN [d EXCEPT !.at = [x \in DOMAIN d.at |-> IF x = k THEN v ELSE d.at[x]]]
    ELSE [keys |-> Append(d.keys, k), at |-> (k :> v) @@ d.at]

SeqMax(S) == CHOOSE m \in S : \A x \in S : x <= m

\* the elements of a set of integers in increasing order
RECURSIVE Sorted(_)
Sorted(S) ==
    IF S = {} THEN <<>>
    ELSE LET m == SeqMax(S) IN Append(Sorted(S \ {m}), m)

---------------------------------------------------------------------------
\* Type mapper.

\* what dict.get returns for a key the map does not hold
Absent == "None"

type_to_sqlitetype(t) ==
    CASE t = "str" -> "TEXT"
      [] t = "int" -> "INTEGER"
      [] t = "float" -> "REAL"
      [] t = "bytes" -> "BLOB"
      [] t = "None" -> "NULL"
      [] OTHER -> Absent

---------------------------------------------------------------------------
\* Schema definition.

RowDef(n, t, u, nl) == [name |-> n, type |-> t, unique |-> u, nullable |-> nl]

\* str.lower on the field names the model uses
Lower(n) ==
    CASE n = "ID" -> "id"
      [] OTHER -> n

RESERVED_COLUMNS == {"id", "_fuzzy_match_"}

\* TableDef.__init__ of sqlitemplate.py.  cdef is [path, elems]: a Mapping
\* (path "map", elems the (name, type) items in order) or an Iterable (path
\* "iter", elems the objects it yields, isRowDef telling a _RowDef from
\* anything else).  The result is the list built, or the exception raised.
RECURSIVE sync_TableDef_loop(_, _, _)
sync_TableDef_loop(path, elems, acc) ==
    IF elems = <<>> THEN [kind |-> "ok", val |-> acc]
    ELSE LET x == Head(elems) IN
         IF path = "map"
         THEN IF Lower(x.name) = "id"
              THEN [kind |-> "NameError", val |-> <<>>]
              ELSE sync_TableDef_loop(path, Tail(elems),
                       Append(acc, RowDef(x.name, x.type, FALSE, FALSE)))
         ELSE IF x.isRowDef
              THEN sync_TableDef_loop(path, Tail(elems),
                       Append(acc, RowDef(x.name, x.type, x.unique, x.nullable)))
              ELSE [kind |-> "ValueError", val |-> <<>>]

sync_TableDef(cdef) == sync_TableDef_loop(cdef.path, cdef.elems, <<>>)

\* TableDef.__init__ of async_sqlitemplate.py.
RECURSIVE async_TableDef_loop(_, _, _)
async_TableDef_loop(path, elems, acc) ==
    IF elems = <<>> THEN [kind |-> "ok", val |-> acc]
    ELSE LET x == Head(elems) IN
         IF path = "map"
         THEN IF Lower(x.name) \in RESERVED_COLUMNS
              THEN [kind |-> "NameError", val |-> <<>>]
              ELSE async_TableDef_loop(path, Tail(elems),
                       Append(acc, RowDef(x.name, x.type, FALSE, FALSE)))
         ELSE IF x.isRowDef
              THEN IF Lower(x.name) \in RESERVED_COLUMNS
                   THEN [kind |-> "NameError", val |-> <<>>]
                   ELSE async_TableDef_loop(path, Tail(elems),
                            Append(acc, RowDef(x.name, x.type, x.unique, x.nullable)))
              ELSE [kind |-> "ValueError", val |-> <<>>]

async_TableDef(cdef) == async_TableDef_loop(cdef.path, cdef.elems, <<>>)

TableDef(e, cdef) == IF e = "sync" THEN sync_TableDef(cdef) ELSE async_TableDef(cdef)

\* TableDef.as_dict: later rows of a name overwrite the type of earlier ones
RECURSIVE as_dict_loop(_, _)
as_dict_loop(td, acc) ==
    IF td = <<>> THEN acc
    ELSE as_dict_loop(Tail(td), DictUpdate(acc, Head(td).name, Head(td).type))

as_dict(td) == as_dict_loop(td, EmptyDict)

\* the fields __init__ sets from the schema (both engines)
NewSelf(td) ==
    [tabledef |-> td,
     datadef |-> as_dict(td),
     datadef_with_id |-> DictUpdate(as_dict(td), "id", "int")]

NoSelf == NewSelf(<<>>)

\* what dict.get(key) gives on a datadef
DictGet(d, k) == IF k \in DOMAIN d.at THEN d.at[k] ELSE Absent

---------------------------------------------------------------------------
\* KeysValidationFailure: validate_keys returns normally (TRUE) or raises
\* (FALSE).  d_keys and dt_keys are the two key sets.

\* validate_keys without its fullmatch branch
validate_keys_partial(d_keys, dt_keys, fullmatch) ==
    d_keys \ dt_keys = {}

validate_keys(d_keys, dt_keys, fullmatch) ==
    IF fullmatch
    THEN d_keys = dt_keys
    ELSE d_keys \ dt_keys = {}

---------------------------------------------------------------------------
\* The storage engine on one table.  A database state is
\*   exists: the table has been created,
\*   rows:   the records, a function from ids to rows (column -> value),
\*   seq:    the largest id AUTOINCREMENT has handed out (sqlite_sequence).
\* A statement gives [kind, db, val]: how it ended, the state it leaves and
\* what the cursor reports (lastrowid, or the rows fetched).

EmptyDb == [exists |-> FALSE, rows |-> <<>>, seq |-> 0]

Ok(db, v) == [kind |-> "ok", db |-> db, val |-> v]
\* a refused statement that has used up an id all the same
StorageError_partial(db) ==
    [kind |-> "StorageError", db |-> [db EXCEPT !.seq = db.seq + 1], val |-> 0]
StorageError(db) == [kind |-> "StorageError", db |-> db, val |-> 0]

\* the columns of the table CREATE TABLE makes, in order
Columns(td) == [i \in 1..Len(td) |-> td[i].name] \o <<"id">>

\* one column of the CREATE TABLE statement as _create_table renders it:
\* f"{rd.name} {type_to_sqlitetype(rd.type)}" [UNIQUE] [NOT NULL]
ColumnDef(rd) ==
    [name |-> rd.name, type |-> type_to_sqlitetype(rd.type),
     unique |-> rd.unique, notnull |-> ~rd.nullable]

\* SQLite compares column names without regard to case
HasDuplicateColumn(td) ==
    \E i, j \in 1..(Len(td) + 1) :
        i < j /\ Lower(Columns(td)[i]) = Lower(Columns(td)[j])

\* CREATE TABLE IF NOT EXISTS t (name type [UNIQUE] [NOT NULL], ...,
\*                               id INTEGER PRIMARY KEY AUTOINCREMENT)
SqlCreateTable(db, td) ==
    IF td = <<>> THEN StorageError(db)
    ELSE IF db.exists THEN Ok(db, 0)
    ELSE IF HasDuplicateColumn(td) THEN StorageError(db)
    ELSE Ok([db EXCEPT !.exists = TRUE], 0)

IndexOf(s, x) == CHOOSE i \in DOMAIN s : s[i] = x

\* INSERT INTO t (cols) VALUES (?, ...) with params bound in order
SqlInsert(db, td, cols, params) ==
    LET row == [c \in Range(cols) |-> params[IndexOf(cols, c)]]
        id == db.seq + 1
    IN  IF ~db.exists THEN StorageError(db)
        ELSE IF \E i \in DOMAIN td : ~td[i].nullable /\ row[td[i].name] = NULL
        THEN StorageError(db)
        ELSE IF \E i \in DOMAIN td :
                    /\ td[i].unique
                    /\ row[td[i].name] # NULL
                    /\ \E r \in DOMAIN db.rows :
                           db.rows[r][td[i].name] = row[td[i].name]
        THEN StorageError(db)
        ELSE Ok([db EXCEPT !.rows = (id :> row) @@ db.rows, !.seq = id], id)

\* DELETE FROM t WHERE id = ?
SqlDelete(db, id) ==
    IF ~db.exists THEN StorageError(db)
    ELSE Ok([db EXCEPT !.rows = [r \in DOMAIN db.rows \ {id} |-> db.rows[r]]], 0)

\* UPDATE t SET col = ?, ... WHERE id = ?  (a statement that names a column
\* the table does not have is refused; one that sets id moves the row)
SqlUpdate(db, td, cols, params, id) ==
    LET new == [c \in Range(Columns(td)) \ {"id"} |->
                   IF c \in Range(cols) THEN params[IndexOf(cols, c)]
                   ELSE db.rows[id][c]]
        newid == IF "id" \in Range(cols) THEN params[IndexOf(cols, "id")][2]
                 ELSE id
        others == DOMAIN db.rows \ {id}
    IN  IF ~db.exists \/ ~(Range(cols) \subseteq Range(Columns(td)))
        THEN StorageError(db)
        ELSE IF id \notin DOMAIN db.rows THEN Ok(db, 0)
        ELSE IF \E i \in DOMAIN td : ~td[i].nullable /\ new[td[i].name] = NULL
        THEN StorageError(db)
        ELSE IF \E i \in DOMAIN td :
                    /\ td[i].unique
                    /\ new[td[i].name] # NULL
                    /\ \E r \in others : db.rows[r][td[i].name] = new[td[i].name]
        THEN StorageError(db)
        ELSE IF newid \in others THEN StorageError(db)
        ELSE Ok([db EXCEPT !.rows = (newid :> new) @@ [r \in others |-> db.rows[r]]],
                0)

\* ASCII case folding of LIKE
Fold(c) == IF c = "A" THEN "a" ELSE c

\* text LIKE pattern: % matches any run of characters, _ any one character,
\* letters match without regard to case
RECURSIVE Like(_, _)
Like(p, s) ==
    IF p = <<>> THEN s = <<>>
    ELSE IF Head(p) = "%"
         THEN Like(Tail(p), s) \/ (s # <<>> /\ Like(p, Tail(s)))
         ELSE /\ s # <<>>
              /\ (Head(p) = "_" \/ Fold(Head(p)) = Fold(Head(s)))
              /\ Like(Tail(p), Tail(s))

\* the value of column c in the row with this id
ColumnValue(db, id, c) == IF c = "id" THEN IntVal(id) ELSE db.rows[id][c]

\* one condition of a WHERE clause: [col, like, param]
CondHolds(db, id, cond) ==
    LET v == ColumnValue(db, id, cond.col) IN
    IF cond.like
    THEN v # NULL /\ Like(cond.param, Chars(v))
    ELSE v # NULL /\ cond.param # NULL /\ v = cond.param

\* SELECT * FROM t [WHERE cond AND ...]: the rows as tuples in column order
SqlSelect(db, td, conds) ==
    LET hit == {id \in DOMAIN db.rows : \A cond \in conds : CondHolds(db, id, cond)}
        ids == Sorted(hit)
    IN  IF ~db.exists \/ \E cond \in conds : cond.col \notin Range(Columns(td))
        THEN StorageError(db)
        ELSE Ok(db, [n \in DOMAIN ids |->
                        [i \in DOMAIN Columns(td) |->
                            ColumnValue(db, ids[n], Columns(td)[i])]])

---------------------------------------------------------------------------
\* The methods of the engine as functions of the database state the
\* statement runs on: the key validation, and the statement built.

KeysValidationFailure(db) == [kind |-> "KeysValidationFailure", db |-> db, val |-> 0]

create_table(db, s) == SqlCreateTable(db, s.tabledef)

add_valid(s, item) ==
    validate_keys(DOMAIN item, Range(s.datadef.keys), TRUE)

\* [item[k] for k in self._datadef.keys()] raises KeyError on a missing key
KeyError(db) == [kind |-> "KeyError", db |-> db, val |-> 0]

add(db, s, item) ==
    LET keys == s.datadef.keys IN
    IF ~add_valid(s, item) THEN KeysValidationFailure(db)
    ELSE IF ~(Range(keys) \subseteq DOMAIN item) THEN KeyError(db)
    ELSE SqlInsert(db, s.tabledef, keys, [i \in DOMAIN keys |-> item[keys[i]]])

delete(db, item_id) == SqlDelete(db, item_id)

modify_valid(s, info) ==
    validate_keys(DOMAIN info, Range(s.datadef.keys), FALSE)

\* the keys of a keyword dictionary in the order the statement lists them
KeyOrder(s, info) == SelectSeq(s.datadef_with_id.keys, LAMBDA k : k \in DOMAIN info)

\* modify without its call of validate_keys
modify_unvalidated(db, s, item_id, info) ==
    LET keys == KeyOrder(s, info) IN
    IF DOMAIN info = {} THEN Ok(db, 0)
    ELSE SqlUpdate(db, s.tabledef, keys, [i \in DOMAIN keys |-> info[keys[i]]], item_id)

modify(db, s, item_id, info) ==
    LET keys == KeyOrder(s, info) IN
    IF DOMAIN info = {} THEN Ok(db, 0)
    ELSE IF ~modify_valid(s, info) THEN KeysValidationFailure(db)
    ELSE SqlUpdate(db, s.tabledef, keys, [i \in DOMAIN keys |-> info[keys[i]]], item_id)

search_valid(s, info) ==
    validate_keys(DOMAIN info, Range(s.datadef_with_id.keys), FALSE)

\* str(value) inside f"%{value}%"
StrOf(v) == IF v = NULL THEN <<"N", "o", "n", "e">> ELSE Chars(v)

search_conditions(s, fuzzy_match, info) ==
    {IF fuzzy_match /\ DictGet(s.datadef_with_id, key) = "str"
     THEN [col |-> key, like |-> TRUE,
           param |-> <<"%">> \o StrOf(info[key]) \o <<"%">>]
     ELSE [col |-> key, like |-> FALSE, param |-> info[key]]
     : key \in DOMAIN info}

\* book = {k: row[i] for i, k in enumerate(self._datadef_with_id.keys())}
book(s, row) ==
    LET keys == s.datadef_with_id.keys IN
    [k \in Range(keys) |-> row[IndexOf(keys, k)]]

search(db, s, fuzzy_match, info) ==
    LET res == SqlSelect(db, s.tabledef, search_conditions(s, fuzzy_match, info)) IN
    IF ~search_valid(s, info) THEN KeysValidationFailure(db)
    ELSE IF res.kind # "ok" THEN res
    ELSE Ok(db, [n \in DOMAIN res.val |-> book(s, res.val[n])])

vacuum(db) == Ok(db, 0)

\* How Python binds the keywords of a call to the parameters of the method.
\* A caller writes modify(item_id, **kw), and search(**kw) or
\* search(True, **kw): a keyword with the name of a parameter is bound to
\* that parameter and never reaches **info; it is a TypeError when the
\* parameter has its value from the positional argument already.

\* bool(v) of a value
Truthy(v) == v # NULL /\ v # TextVal(<<>>) /\ v # IntVal(0)

\* the name of the flag in the signature of search
FuzzyParam(e) == IF e = "sync" THEN "fuzzy_match" ELSE "_fuzzy_match_"

TypeError == [kind |-> "TypeError", fuzzy |-> FALSE, info |-> <<>>]
Bound(fz, info) == [kind |-> "ok", fuzzy |-> fz, info |-> info]

\* modify(self, item_id: int, **info) called as modify(item_id, **kw)
modify_bind(kw) ==
    IF "item_id" \in DOMAIN kw THEN TypeError ELSE Bound(FALSE, kw)

\* search(self, fuzzy_match=False, **info) of sqlitemplate.py and
\* search(self, _fuzzy_match_=False, **info) of async_sqlitemplate.py, called
\* as search(**kw) (positional FALSE) or as search(True, **kw); the flag is
\* only ever tested for truth
search_bind(e, positional, kw) ==
    LET p == FuzzyParam(e) IN
    IF p \notin DOMAIN kw THEN Bound(positional, kw)
    ELSE IF positional THEN TypeError
    ELSE Bound(Truthy(kw[p]), [k \in DOMAIN kw \ {p} |-> kw[k]])

---------------------------------------------------------------------------
\* What callers pass.  A record is a function from keys to values.

FieldNames(td) == Range(as_dict(td).keys)

ValuesFor(td, k) == IF k = "id" THEN {IntVal(i) : i \in 1..MaxAdds}
                    ELSE InputsOfType(DictGet(as_dict(td), k))

FiltersFor(td, k) == IF k = "id" THEN {IntVal(i) : i \in 1..MaxAdds}
                     ELSE FiltersOfType(DictGet(as_dict(td), k))

\* the records with key set K: values to store, or values to search for
RECURSIVE RecordsOver(_, _, _)
RecordsOver(td, K, asFilter) ==
    IF K = {} THEN {<<>>}
    ELSE LET k == CHOOSE x \in K : TRUE IN
         {(k :> v) @@ f :
             v \in IF asFilter THEN FiltersFor(td, k) ELSE ValuesFor(td, k),
             f \in RecordsOver(td, K \ {k}, asFilter)}

\* One record stands for every record with the same keys where only the
\* keys are looked at (the key validation).
AnyRecordOver(td, K) == [k \in K |-> CHOOSE v \in ValuesFor(td, k) : TRUE]

\* add: records over the full field set; a field missing, an extra key (id,
\* or a name that is no field)
AddInputsOf(td) ==
    RecordsOver(td, FieldNames(td), FALSE)
        \cup {AnyRecordOver(td, FieldNames(td) \cup {k}) : k \in {"id", "nosuchfield"}}
        \cup {AnyRecordOver(td, FieldNames(td) \ {k}) : k \in FieldNames(td)}

\* modify: records over any subset of the fields (the empty one too); a key
\* outside the fields (id, or a name that is no field)
ModifyInputsOf(td) ==
    UNION {RecordsOver(td, K, FALSE) : K \in SUBSET FieldNames(td)}
        \cup {AnyRecordOver(td, {k}) : k \in {"id", "nosuchfield"}}

\* search: filters over any subset of the fields and id; a key that is no
\* column
SearchInputsOf(td) ==
    UNION {RecordsOver(td, K, TRUE) : K \in SUBSET (FieldNames(td) \cup {"id"})}
        \cup {[k \in {"nosuchfield"} |-> NULL]}

\* What a search step leaves behind (how it ended) depends on the filter
\* only through its keys, the rows returned not being kept: in the steps one
\* filter is drawn per key set.
AnyFilterOver(td, K) == [k \in K |-> CHOOSE v \in FiltersFor(td, k) : TRUE]

SearchCallsOf(td) ==
    {AnyFilterOver(td, K) : K \in SUBSET (FieldNames(td) \cup {"id"})}
        \cup {[k \in {"nosuchfield"} |-> NULL]}

Ids == 1..MaxAdds

\* the schemas callers try to build
CDefs ==
    { [path |-> "map", elems |-> <<[name |-> "title", type |-> "str"]>>],
      [path |-> "map", elems |-> <<[name |-> "ID", type |-> "int"]>>],
      [path |-> "map", elems |-> <<[name |-> "_fuzzy_match_", type |-> "str"]>>],
      [path |-> "iter", elems |->
          <<[isRowDef |-> TRUE, name |-> "title", type |-> "str",
             unique |-> FALSE, nullable |-> FALSE],
            [isRowDef |-> TRUE, name |-> "pages", type |-> "int",
             unique |-> TRUE, nullable |-> TRUE]>>],
      [path |-> "iter", elems |->
          <<[isRowDef |-> TRUE, name |-> "id", type |-> "str",
             unique |-> FALSE, nullable |-> FALSE]>>],
      [path |-> "iter", elems |->
          <<[isRowDef |-> TRUE, name |-> "_fuzzy_match_", type |-> "str",
             unique |-> FALSE, nullable |-> FALSE]>>],
      [path |-> "iter", elems |->
          <<[isRowDef |-> FALSE, name |-> "", type |-> "",
             unique |-> FALSE, nullable |-> FALSE]>>],
      [path |-> "map", elems |-> <<[name |-> "tags", type |-> "list"]>>],
      [path |-> "map", elems |-> <<[name |-> "fuzzy_match", type |-> "int"]>>],
      [path |-> "map", elems |-> <<[name |-> "item_id", type |-> "int"]>>] }

\* the schemas construction can give, and the inputs for each (tables, so
\* that they are computed once)
TableDefs == {TableDef(e, cdef).val : e \in {"sync", "async"}, cdef \in CDefs}

InputTable ==
    [td \in TableDefs |->
        [add |-> AddInputsOf(td),
         modify |-> ModifyInputsOf(td),
         search |-> SearchInputsOf(td),
         calls |-> SearchCallsOf(td)]]

AddInputs(td) == InputTable[td].add
ModifyInputs(td) == InputTable[td].modify
SearchInputs(td) == InputTable[td].search
SearchCalls(td) == InputTable[td].calls

---------------------------------------------------------------------------
\* The record of the last call that returned or raised: the method and how
\* it ended; for an add that returned, also the record given and the id
\* returned.

Event(o, k) == [op |-> o, kind |-> k, id |-> 0, item |-> <<>>]
AddEvent(k, id, item) ==
    IF k = "ok" THEN [op |-> "add", kind |-> k, id |-> id, item |-> item]
    ELSE Event("add", k)

NoEvent == Event("none", "ok")

---------------------------------------------------------------------------
\* custom_decorators.py: Fallbacker.

\* registered fallback functions in one run
MaxFallbacks == 2

\* the wrapped function and the functions callers register
FuncNames == {"func", "f1", "f2"}
\* the arguments of a call
CallArgs == {1, 2}

\* the exception classes functions raise, and their base classes
Raisable == {"KeyError", "ValueError", "KeyboardInterrupt"}
Bases(e) ==
    CASE e = "KeyError" -> {"KeyError", "LookupError", "Exception", "BaseException"}
      [] e = "ValueError" -> {"ValueError", "Exception", "BaseException"}
      [] e = "KeyboardInterrupt" -> {"KeyboardInterrupt", "BaseException"}
      [] e = "FallbackFailure" -> {"FallbackFailure", "Exception", "BaseException"}

\* what a function does when called: return, or raise one of the classes
Behaviours == {"return"} \cup Raisable

\* how a call ends
Returned(v) == [kind |-> "return", val |-> v]
Raised(e) == [kind |-> "raise", val |-> e]

\* f(*args, **kwargs) where does tells what each function does: a function
\* that returns gives a value that names it and the arguments it got
Apply(f, does, args) ==
    IF does[f] = "return" THEN Returned(<<f, args>>) ELSE Raised(does[f])

\* except self._tol_excs catches an exception of class e
Tolerated(e, tol_excs) == Bases(e) \cap tol_excs # {}

\* Fallbacker.__init__; tolerable_exceptions is the iterable given as a
\* sequence, <<>> for None or an empty one
Fallbacker(tolerable_exceptions) ==
    [tol_excs |-> IF tolerable_exceptions # <<>> THEN Range(tolerable_exceptions)
                  ELSE {"Exception"},
     fallback_funcs |-> <<>>]

\* Fallbacker.register
register(fbk, f) == [fbk EXCEPT !.fallback_funcs = Append(fbk.fallback_funcs, f)]

\* the outcome of a call: how it ended, and the calls made, in order
Outcome2(res, called) == [res |-> res, called |-> called]

\* _do_fallback with every exception taken as tolerable
RECURSIVE do_fallback_all(_, _, _, _, _)
do_fallback_all(tol_excs, funcs, does, args, called) ==
    IF funcs = <<>> THEN Outcome2(Raised("FallbackFailure"), called)
    ELSE LET r == Apply(Head(funcs), does, args)
             c == Append(called, <<Head(funcs), args>>)
         IN  IF r.kind = "return" THEN Outcome2(r, c)
             ELSE do_fallback_all(tol_excs, Tail(funcs), does, args, c)

\* Fallbacker._do_fallback over the functions still to try
RECURSIVE do_fallback(_, _, _, _, _)
do_fallback(tol_excs, funcs, does, args, called) ==
    IF funcs = <<>> THEN Outcome2(Raised("FallbackFailure"), called)
    ELSE LET r == Apply(Head(funcs), does, args)
             c == Append(called, <<Head(funcs), args>>)
         IN  IF r.kind = "return" THEN Outcome2(r, c)
             ELSE IF Tolerated(r.val, tol_excs)
             THEN do_fallback(tol_excs, Tail(funcs), does, args, c)
             ELSE Outcome2(r, c)

\* Fallbacker.__call__
Fallbacker_call(fbk, does, args) ==
    LET r == Apply("func", does, args)
        c == <<<<"func", args>>>>
    IN  IF r.kind = "return" THEN Outcome2(r, c)
        ELSE IF Tolerated(r.val, fbk.tol_excs)
        THEN IF fbk.fallback_funcs # <<>>
             THEN do_fallback(fbk.tol_excs, fbk.fallback_funcs, does, args, c)
             ELSE Outcome2(r, c)
        ELSE Outcome2(r, c)

\* the record of the last call of the Fallbacker: the functions registered
\* when it was made, what each function did, the arguments, the outcome
NoCall == [made |-> FALSE]
LastCall(fbk, does, args) ==
    [made |-> TRUE, funcs |-> fbk.fallback_funcs, does |-> does, args |-> args,
     out |-> Fallbacker_call(fbk, does, args)]

\* the tolerable_exceptions arguments callers give
TolInputs == {<<>>, <<"KeyError">>}

NoFallbacker == [obj |-> Fallbacker(<<>>), last |-> NoCall]

FallbackerInit == \E tol \in TolInputs : fb = [obj |-> Fallbacker(tol), last |-> NoCall]

\* @wrapped.register
RegisterFallback ==
    /\ unit = "fallback"
    /\ Len(fb.obj.fallback_funcs) < MaxFallbacks
    /\ \E f \in FuncNames \ {"func"} : fb' = [fb EXCEPT !.obj = register(fb.obj, f)]
    /\ UNCHANGED <<dbVars, unit, cw, sch>>

\* wrapped(*args)
CallFallbacker ==
    /\ unit = "fallback"
    /\ \E does \in [FuncNames -> Behaviours], args \in CallArgs :
          fb' = [fb EXCEPT !.last = LastCall(fb.obj, does, args)]
    /\ UNCHANGED <<dbVars, unit, cw, sch>>

---------------------------------------------------------------------------
\* custom_decorators.py: CacheWrapper, called from the threads Callers.  A
\* thread is idle, holds self._lock having evaluated the condition of the if
\* statement (in_func: the wrapped function runs), or has left the with
\* statement and is about to return self._cache (leaving).

\* the expire argument, in ticks of the clock
Expire == 2
\* ticks of the clock in one run
MaxTicks == 3

\* what the wrapped function returns
FuncResults == {NULL, IntVal(1), IntVal(2)}

\* CacheWrapper.__init__; the clock (time.time()) is far from 0 from the start
CacheWrapper ==
    [cache |-> NULL, last_call |-> 0, lock |-> 0,
     pc |-> [t \in Callers |-> "idle"],
     out |-> [t \in Callers |-> Returned(NULL)],
     now |-> Expire]

\* self._cache is None or time.time() - self._last_call >= self._expire
stale(c) == c.cache = NULL \/ c.now - c.last_call >= Expire

\* time passes
Tick ==
    /\ unit = "cache"
    /\ cw.now < Expire + MaxTicks
    /\ cw' = [cw EXCEPT !.now = cw.now + 1]
    /\ UNCHANGED <<dbVars, unit, fb, sch>>

\* with self._lock: if ...: the thread gets the lock and either calls the
\* wrapped function or leaves the with statement
CacheWrapper_enter(t) ==
    /\ unit = "cache"
    /\ cw.pc[t] = "idle"
    /\ cw.lock = 0
    /\ cw' = IF stale(cw)
             THEN [cw EXCEPT !.lock = t, !.pc[t] = "in_func"]
             ELSE [cw EXCEPT !.pc[t] = "leaving"]
    /\ UNCHANGED <<dbVars, unit, fb, sch>>

\* self._cache = self._func(...); self._last_call = time.time(), or the
\* function raises and the exception leaves the with statement
CacheWrapper_func(t) ==
    /\ unit = "cache"
    /\ cw.pc[t] = "in_func"
    /\ \/ \E v \in FuncResults :
             cw' = [cw EXCEPT !.cache = v, !.last_call = cw.now, !.lock = 0,
                              !.pc[t] = "leaving"]
       \/ cw' = [cw EXCEPT !.lock = 0, !.pc[t] = "idle",
                           !.out[t] = Raised("ValueError")]
    /\ UNCHANGED <<dbVars, unit, fb, sch>>

\* return self._cache
CacheWrapper_return(t) ==
    /\ unit = "cache"
    /\ cw.pc[t] = "leaving"
    /\ cw' = [cw EXCEPT !.pc[t] = "idle", !.out[t] = Returned(cw.cache)]
    /\ UNCHANGED <<dbVars, unit, fb, sch>>

---------------------------------------------------------------------------
\* custom_decorators.py: Scheduler.

\* direct calls of the wrapper in one run
MaxCalls == 3

\* Scheduler.__init__: self._thread = threading.Thread(target=func, daemon=True)
\* thread is the state of that thread; by_thread and by_call count the
\* invocations of the function by the thread and by direct calls
Scheduler ==
    [target |-> "func", thread |-> "initial", by_thread |-> 0, by_call |-> 0,
     slept |-> 0, raised |-> FALSE]

\* Scheduler.start: Thread.start raises RuntimeError when called again
Scheduler_start ==
    /\ unit = "schedule"
    /\ sch' = IF sch.thread = "initial"
              THEN [sch EXCEPT !.thread = "started", !.raised = FALSE]
              ELSE [sch EXCEPT !.raised = TRUE]
    /\ UNCHANGED <<dbVars, unit, fb, cw>>

\* Scheduler._schedule_worker, one turn of its loop: sleep, then call
schedule_worker(s) ==
    [s EXCEPT !.slept = 1, !.by_thread = IF s.by_thread < MaxCalls
                                         THEN s.by_thread + 1 ELSE s.by_thread]

\* the thread runs its target: the function itself, which it calls once and
\* ends; with _schedule_worker as target it would loop
Scheduler_thread ==
    /\ unit = "schedule"
    /\ sch.thread = "started"
    /\ sch' = IF sch.target = "func"
              THEN [sch EXCEPT !.by_thread = sch.by_thread + 1, !.thread = "stopped"]
              ELSE schedule_worker(sch)
    /\ UNCHANGED <<dbVars, unit, fb, cw>>

\* Scheduler.__call__
Scheduler_call ==
    /\ unit = "schedule"
    /\ sch.by_call < MaxCalls
    /\ sch' = [sch EXCEPT !.by_call = sch.by_call + 1]
    /\ UNCHANGED <<dbVars, unit, fb, cw>>

\* the decorators when the data layer is exercised
DecoIdle ==
    /\ unit = "db"
    /\ fb = NoFallbacker
    /\ cw = CacheWrapper
    /\ sch = Scheduler

Init ==
    /\ DecoIdle
    /\ engine \in {"sync", "async"}
    /\ phase = "new"
    /\ tabledef = <<>>
    /\ self = NoSelf
    /\ disk = EmptyDb
    /\ rw = [readers |-> {}, writer |-> 0]
    /\ pc = [t \in Callers |-> "idle"]
    /\ op = [t \in Callers |-> "none"]
    /\ myconn = [t \in Callers |-> 0]
    /\ selfConn = 0
    /\ conns = <<>>
    /\ reopen = [t \in Callers |-> FALSE]
    /\ addLog = <<>>
    /\ ret = NoEvent

---------------------------------------------------------------------------
\* Construction.

\* dbcls_factory: TableDef(tabledef) builds the schema or raises
BuildSchema ==
    /\ phase = "new"
    /\ \E cdef \in CDefs :
          LET res == TableDef(engine, cdef) IN
          /\ phase' = IF res.kind = "ok" THEN "schema" ELSE "rejected"
          /\ tabledef' = res.val
          /\ ret' = Event("TableDef", res.kind)
    /\ UNCHANGED <<engine, decoVars, self, disk, rw, pc, op, myconn, selfConn, conns,
                   reopen, addLog>>

\* _DataBase.__init__ ends by creating the table, under the write lock of
\* the lock it has just made; _AsyncDataBase.__init__ does no I/O.
NewEngine ==
    /\ phase = "schema"
    /\ self' = NewSelf(tabledef)
    /\ LET res == create_table(disk, self') IN
       IF engine = "sync"
       THEN /\ phase' = IF res.kind = "ok" THEN "ready" ELSE "failed"
            /\ disk' = res.db
            /\ ret' = Event("__init__", res.kind)
       ELSE /\ phase' = "ready"
            /\ disk' = disk
            /\ ret' = Event("__init__", "ok")
    /\ UNCHANGED <<engine, decoVars, tabledef, rw, pc, op, myconn, selfConn, conns,
                   reopen, addLog>>

---------------------------------------------------------------------------
\* The reader/writer lock of the blocking engine (module rwlock): any
\* number of readers or one writer.  writer is 0 when no thread writes.

CanRead(l) == l.writer = 0
CanWrite(l) == l.writer = 0 /\ l.readers = {}

AcquireLock(l, t, mode) ==
    IF mode = "read" THEN [l EXCEPT !.readers = l.readers \cup {t}]
    ELSE [l EXCEPT !.writer = t]

ReleaseLock(l, t) ==
    [readers |-> l.readers \ {t}, writer |-> IF l.writer = t THEN 0 ELSE l.writer]

\* the lock each method of the blocking engine takes
create_table_lock == "write"
\* add under the shared lock
add_lock_shared == "read"
add_lock == "write"
\* delete under the shared lock
delete_lock_shared == "read"
delete_lock == "write"
modify_lock == "write"
search_lock == "read"
vacuum_lock == "write"

LockOf(o) ==
    CASE o = "create_table" -> create_table_lock
      [] o = "add" -> add_lock
      [] o = "delete" -> delete_lock
      [] o = "modify" -> modify_lock
      [] o = "search" -> search_lock
      [] o = "vacuum" -> vacuum_lock

---------------------------------------------------------------------------
\* The blocking engine.  A thread is idle, or it is inside the with
\* statement of the method op[t] (pc "exec"): it holds the lock in that
\* method's mode and its connection is open.  A thread that waits for the
\* lock has done nothing yet but validate its keys, so entering the with
\* statement is one step, enabled when the lock can be had.  The arguments
\* of a call are local to the caller and read only by the key validation
\* and by the statement, so they are drawn where each of the two runs.

fixedVars == <<engine, decoVars>>
schemaVars == <<fixedVars, phase, tabledef, self>>
asyncVars == <<myconn, selfConn, conns, reopen>>

SyncReady == engine = "sync" /\ phase = "ready"

\* add calls yet to return, counted so that ids stay within MaxAdds
AddsInFlight == Cardinality({t \in Callers : op[t] = "add"})

\* the call raises, or returns, but inside the with statement: it has waited
\* for the write lock
SyncReturnEarly_locked(t, ev) ==
    /\ pc[t] = "idle"
    /\ CanWrite(rw)
    /\ ret' = ev
    /\ UNCHANGED <<schemaVars, disk, rw, pc, op, asyncVars, addLog>>

\* the call raises, or returns, before it asks for the lock
SyncReturnEarly(t, ev) ==
    /\ pc[t] = "idle"
    /\ ret' = ev
    /\ UNCHANGED <<schemaVars, disk, rw, pc, op, asyncVars, addLog>>

\* with self._lock.write_lock() / read_lock(), self._get_connection() as conn
SyncEnter(t, o) ==
    /\ pc[t] = "idle"
    /\ IF LockOf(o) = "read" THEN CanRead(rw) ELSE CanWrite(rw)
    /\ rw' = AcquireLock(rw, t, LockOf(o))
    /\ pc' = [pc EXCEPT ![t] = "exec"]
    /\ op' = [op EXCEPT ![t] = o]
    /\ UNCHANGED <<schemaVars, disk, asyncVars, addLog, ret>>

\* leaving the with statement, but with the lock kept when the statement
\* raised
SyncLeave_held(t, res, ev) ==
    /\ disk' = IF res.kind = "ok" THEN res.db ELSE disk
    /\ rw' = IF res.kind = "ok" THEN ReleaseLock(rw, t) ELSE rw
    /\ pc' = [pc EXCEPT ![t] = "idle"]
    /\ op' = [op EXCEPT ![t] = "none"]
    /\ ret' = ev
    /\ UNCHANGED <<schemaVars, asyncVars>>

\* the statement has run with result res: leaving the with statement commits
\* (or, on an exception, rolls back) and releases the lock
SyncLeave(t, res, ev) ==
    /\ disk' = IF res.kind = "ok" THEN res.db ELSE disk
    /\ rw' = ReleaseLock(rw, t)
    /\ pc' = [pc EXCEPT ![t] = "idle"]
    /\ op' = [op EXCEPT ![t] = "none"]
    /\ ret' = ev
    /\ UNCHANGED <<schemaVars, asyncVars>>

InMethod(t, o) == pc[t] = "exec" /\ op[t] = o

sync_create_table(t) ==
    /\ SyncReady
    /\ \/ SyncEnter(t, "create_table")
       \/ /\ InMethod(t, "create_table")
          /\ LET res == create_table(disk, self) IN
             SyncLeave(t, res, Event("create_table", res.kind))
          /\ UNCHANGED addLog

sync_add(t) ==
    /\ SyncReady
    /\ \/ \E item \in AddInputs(tabledef) :
             /\ ~add_valid(self, item)
             /\ SyncReturnEarly(t, Event("add", "KeysValidationFailure"))
       \/ /\ Len(addLog) + AddsInFlight < MaxAdds
          /\ SyncEnter(t, "add")
       \/ /\ InMethod(t, "add")
          /\ \E item \in AddInputs(tabledef) :
                /\ add_valid(self, item)
                /\ LET res == add(disk, self, item) IN
                   /\ SyncLeave(t, res, AddEvent(res.kind, res.val, item))
                   /\ addLog' = IF res.kind = "ok" THEN Append(addLog, res.val)
                                ELSE addLog

sync_delete(t) ==
    /\ SyncReady
    /\ \/ SyncEnter(t, "delete")
       \/ /\ InMethod(t, "delete")
          /\ \E item_id \in Ids :
                LET res == delete(disk, item_id) IN
                SyncLeave(t, res, Event("delete", res.kind))
          /\ UNCHANGED addLog

sync_modify(t) ==
    /\ SyncReady
    /\ \/ \E item_id \in Ids, kw \in ModifyInputs(tabledef) :
             LET info == modify_bind(kw).info IN
             IF modify_bind(kw).kind = "TypeError"
             THEN SyncReturnEarly(t, Event("modify", "TypeError"))
             ELSE /\ DOMAIN info = {} \/ ~modify_valid(self, info)
                  /\ LET res == modify(disk, self, item_id, info) IN
                     SyncReturnEarly(t, Event("modify", res.kind))
       \/ SyncEnter(t, "modify")
       \/ /\ InMethod(t, "modify")
          /\ \E item_id \in Ids, kw \in ModifyInputs(tabledef) :
                LET info == modify_bind(kw).info IN
                /\ modify_bind(kw).kind = "ok"
                /\ DOMAIN info # {}
                /\ modify_valid(self, info)
                /\ LET res == modify(disk, self, item_id, info) IN
                   SyncLeave(t, res, Event("modify", res.kind))
          /\ UNCHANGED addLog

sync_search(t) ==
    /\ SyncReady
    /\ \/ \E positional \in BOOLEAN, kw \in SearchCalls(tabledef) :
             LET b == search_bind(engine, positional, kw) IN
             IF b.kind = "TypeError"
             THEN SyncReturnEarly(t, Event("search", "TypeError"))
             ELSE /\ ~search_valid(self, b.info)
                  /\ SyncReturnEarly(t, Event("search", "KeysValidationFailure"))
       \/ SyncEnter(t, "search")
       \/ /\ InMethod(t, "search")
          /\ \E positional \in BOOLEAN, kw \in SearchCalls(tabledef) :
                LET b == search_bind(engine, positional, kw) IN
                /\ b.kind = "ok"
                /\ search_valid(self, b.info)
                /\ LET res == search(disk, self, b.fuzzy, b.info) IN
                   SyncLeave(t, res, Event("search", res.kind))
          /\ UNCHANGED addLog

sync_vacuum(t) ==
    /\ SyncReady
    /\ \/ SyncEnter(t, "vacuum")
       \/ /\ InMethod(t, "vacuum")
          /\ LET res == vacuum(disk) IN
             SyncLeave(t, res, Event("vacuum", res.kind))
          /\ UNCHANGED addLog

---------------------------------------------------------------------------
\* The connections of the cooperative engine.  A connection is
\*   "auto":   open, no transaction,
\*   "txn":    open, in a transaction that holds no write lock (its attempt
\*             to write found the database locked),
\*   "write":  open, in a transaction that holds the write lock of the
\*             database file; pend is the content as this connection sees
\*             it, with its uncommitted changes,
\*   "closed": closed; what it had not committed is rolled back.
\* Nothing in async_sqlitemplate.py commits, so a change reaches disk only
\* where the sqlite3 module runs the statement outside a transaction.

NewConn == [st |-> "auto", pend |-> EmptyDb]

ViewOf(cs, dk, c) == IF cs[c].st = "write" THEN cs[c].pend ELSE dk
View(c) == ViewOf(conns, disk, c)
OtherWrites(c) == \E d \in DOMAIN conns \ {c} : conns[d].st = "write"
OtherReads(c) == \E d \in DOMAIN conns \ {c} : conns[d].st = "txn"

Outcome(k, cs, dk, v) == [kind |-> k, conns |-> cs, disk |-> dk, val |-> v]

\* INSERT, UPDATE or DELETE on connection c; res is what the statement does
\* on the content the connection sees
ConnWrite(c, res) ==
    IF conns[c].st = "closed"
    THEN {Outcome("ClosedError", conns, disk, 0)}
    ELSE IF ~View(c).exists
    THEN {Outcome("StorageError", conns, disk, 0)}
    ELSE IF conns[c].st # "write" /\ OtherWrites(c)
    THEN {Outcome("StorageError", [conns EXCEPT ![c].st = "txn"], disk, 0)}
    ELSE {Outcome(res.kind,
                  [conns EXCEPT ![c] = [st |-> "write", pend |-> res.db]],
                  disk, res.val)}

\* SELECT on connection c
ConnRead(c, res) ==
    IF conns[c].st = "closed"
    THEN {Outcome("ClosedError", conns, disk, 0)}
    ELSE {Outcome(res.kind, conns, disk, res.val)}

\* CREATE TABLE IF NOT EXISTS on connection c: inside the transaction of c
\* when it has one, committed at once when it has none.  A connection that
\* reads inside a transaction keeps the file from being committed to.
ConnCreate(c, res) ==
    IF conns[c].st = "closed"
    THEN {Outcome("ClosedError", conns, disk, 0)}
    ELSE IF res.kind # "ok" \/ View(c).exists
    THEN {Outcome(res.kind, conns, disk, 0)}
    ELSE IF conns[c].st = "write"
    THEN {Outcome("ok", [conns EXCEPT ![c].pend = res.db], disk, 0)}
    ELSE IF OtherWrites(c)
    THEN {Outcome("StorageError", conns, disk, 0)}
    ELSE IF conns[c].st = "txn"
    THEN {Outcome("ok", [conns EXCEPT ![c] = [st |-> "write", pend |-> res.db]],
                  disk, 0)}
    ELSE {Outcome("ok", conns, res.db, 0)}
             \cup IF OtherReads(c) THEN {Outcome("StorageError", conns, disk, 0)}
                  ELSE {}

\* VACUUM on connection c: refused inside a transaction
ConnVacuum(c, res) ==
    IF conns[c].st = "closed"
    THEN {Outcome("ClosedError", conns, disk, 0)}
    ELSE IF conns[c].st \in {"txn", "write"} \/ OtherWrites(c)
    THEN {Outcome("StorageError", conns, disk, 0)}
    ELSE {Outcome(res.kind, conns, disk, 0)}
             \cup IF OtherReads(c) THEN {Outcome("StorageError", conns, disk, 0)}
                  ELSE {}

\* aiosqlite's Connection.close
ConnClose(c) == [conns EXCEPT ![c] = [st |-> "closed", pend |-> EmptyDb]]

---------------------------------------------------------------------------
\* The cooperative engine.  A task is idle, awaits aiosqlite.connect inside
\* _get_conn (connecting), has its cursor and awaits its statement
\* (execute), or is in close: it awaits the close of the connection
\* (closing), which is closed while it waits (closed), and then sets
\* self._conn to None.  Between two awaits a task runs alone.  As in the
\* blocking engine the arguments are drawn where they are read; which method
\* a task is in is read first by its statement, so it is drawn there too.

AsyncReady == engine = "async" /\ phase = "ready"

\* the call raises, or returns, before its first await
AsyncReturnEarly(t, ev) ==
    /\ pc[t] = "idle"
    /\ ret' = ev
    /\ UNCHANGED <<schemaVars, disk, rw, pc, op, asyncVars, addLog>>

\* _get_cursor, up to the first await of a method whose keys are valid:
\* _get_conn finds self._conn set and the cursor is asked of it, or finds
\* None and awaits aiosqlite.connect
async_get_cursor(t) ==
    /\ AsyncReady
    /\ pc[t] = "idle"
    /\ IF selfConn = 0
       THEN /\ pc' = [pc EXCEPT ![t] = "connecting"]
            /\ UNCHANGED myconn
       ELSE /\ pc' = [pc EXCEPT ![t] = "execute"]
            /\ myconn' = [myconn EXCEPT ![t] = selfConn]
    /\ reopen' = [reopen EXCEPT ![t] = selfConn = 0 /\ conns # <<>>]
    /\ UNCHANGED <<schemaVars, disk, rw, op, selfConn, conns, addLog, ret>>

\* self._conn = await aiosqlite.connect(self._dbpath); return self._conn
async_get_conn(t) ==
    /\ AsyncReady
    /\ pc[t] = "connecting"
    /\ Len(conns) < MaxConns
    /\ conns' = Append(conns, NewConn)
    /\ selfConn' = Len(conns) + 1
    /\ myconn' = [myconn EXCEPT ![t] = Len(conns) + 1]
    /\ pc' = [pc EXCEPT ![t] = "execute"]
    /\ UNCHANGED <<schemaVars, disk, rw, op, reopen, addLog, ret>>

\* the statement of a method ends with outcome out
AsyncLeave(t, out, ev) ==
    /\ pc[t] = "execute"
    /\ conns' = out.conns
    /\ disk' = out.disk
    /\ pc' = [pc EXCEPT ![t] = "idle"]
    /\ myconn' = [myconn EXCEPT ![t] = 0]
    /\ reopen' = [reopen EXCEPT ![t] = FALSE]
    /\ ret' = ev
    /\ UNCHANGED <<schemaVars, rw, op, selfConn>>

async_close(t) ==
    /\ AsyncReady
    /\ \/ /\ selfConn = 0
          /\ AsyncReturnEarly(t, Event("close", "ok"))
       \/ /\ pc[t] = "idle"
          /\ selfConn # 0
          /\ pc' = [pc EXCEPT ![t] = "closing"]
          /\ myconn' = [myconn EXCEPT ![t] = selfConn]
          /\ UNCHANGED <<schemaVars, disk, rw, op, selfConn, conns, reopen, addLog,
                         ret>>
       \/ /\ pc[t] = "closing"
          /\ conns' = ConnClose(myconn[t])
          /\ pc' = [pc EXCEPT ![t] = "closed"]
          /\ UNCHANGED <<schemaVars, disk, rw, op, myconn, selfConn, reopen, addLog,
                         ret>>
       \/ /\ pc[t] = "closed"
          /\ selfConn' = 0
          /\ pc' = [pc EXCEPT ![t] = "idle"]
          /\ myconn' = [myconn EXCEPT ![t] = 0]
          /\ ret' = Event("close", "ok")
          /\ UNCHANGED <<schemaVars, disk, rw, op, conns, reopen, addLog>>

async_create_table(t) ==
    /\ AsyncReady
    /\ pc[t] = "execute"
    /\ \E out \in ConnCreate(myconn[t], create_table(View(myconn[t]), self)) :
          AsyncLeave(t, out, Event("create_table", out.kind))
    /\ UNCHANGED addLog

async_add(t) ==
    /\ AsyncReady
    /\ \/ \E item \in AddInputs(tabledef) :
             /\ ~add_valid(self, item)
             /\ AsyncReturnEarly(t, Event("add", "KeysValidationFailure"))
       \/ /\ pc[t] = "execute"
          /\ Len(addLog) < MaxAdds
          /\ \E item \in AddInputs(tabledef) :
                /\ add_valid(self, item)
                /\ \E out \in ConnWrite(myconn[t], add(View(myconn[t]), self, item)) :
                      /\ AsyncLeave(t, out, AddEvent(out.kind, out.val, item))
                      /\ addLog' = IF out.kind = "ok" THEN Append(addLog, out.val)
                                   ELSE addLog

async_delete(t) ==
    /\ AsyncReady
    /\ pc[t] = "execute"
    /\ \E item_id \in Ids :
          \E out \in ConnWrite(myconn[t], delete(View(myconn[t]), item_id)) :
             AsyncLeave(t, out, Event("delete", out.kind))
    /\ UNCHANGED addLog

async_modify(t) ==
    /\ AsyncReady
    /\ \/ \E item_id \in Ids, kw \in ModifyInputs(tabledef) :
             LET info == modify_bind(kw).info IN
             IF modify_bind(kw).kind = "TypeError"
             THEN AsyncReturnEarly(t, Event("modify", "TypeError"))
             ELSE /\ DOMAIN info = {} \/ ~modify_valid(self, info)
                  /\ LET res == modify(disk, self, item_id, info) IN
                     AsyncReturnEarly(t, Event("modify", res.kind))
       \/ /\ pc[t] = "execute"
          /\ \E item_id \in Ids, kw \in ModifyInputs(tabledef) :
                LET info == modify_bind(kw).info IN
                /\ modify_bind(kw).kind = "ok"
                /\ DOMAIN info # {}
                /\ modify_valid(self, info)
                /\ \E out \in ConnWrite(myconn[t],
                                        modify(View(myconn[t]), self, item_id, info)) :
                      AsyncLeave(t, out, Event("modify", out.kind))
          /\ UNCHANGED addLog

async_search(t) ==
    /\ AsyncReady
    /\ \/ \E positional \in BOOLEAN, kw \in SearchCalls(tabledef) :
             LET b == search_bind(engine, positional, kw) IN
             IF b.kind = "TypeError"
             THEN AsyncReturnEarly(t, Event("search", "TypeError"))
             ELSE /\ ~search_valid(self, b.info)
                  /\ AsyncReturnEarly(t, Event("search", "KeysValidationFailure"))
       \/ /\ pc[t] = "execute"
          /\ \E positional \in BOOLEAN, kw \in SearchCalls(tabledef) :
                LET b == search_bind(engine, positional, kw) IN
                /\ b.kind = "ok"
                /\ search_valid(self, b.info)
                /\ \E out \in ConnRead(myconn[t],
                                       search(View(myconn[t]), self, b.fuzzy, b.info)) :
                      AsyncLeave(t, out, Event("search", out.kind))
          /\ UNCHANGED addLog

async_vacuum(t) ==
    /\ AsyncReady
    /\ pc[t] = "execute"
    /\ \E out \in ConnVacuum(myconn[t], vacuum(View(myconn[t]))) :
          AsyncLeave(t, out, Event("vacuum", out.kind))
    /\ UNCHANGED addLog

AsyncNext ==
    \E t \in Callers :
        \/ async_get_cursor(t)
        \/ async_get_conn(t)
        \/ async_close(t)
        \/ async_create_table(t)
        \/ async_add(t)
        \/ async_delete(t)
        \/ async_modify(t)
        \/ async_search(t)
        \/ async_vacuum(t)

SyncNext ==
    \E t \in Callers :
        \/ sync_create_table(t)
        \/ sync_add(t)
        \/ sync_delete(t)
        \/ sync_modify(t)
        \/ sync_search(t)
        \/ sync_vacuum(t)

Next == BuildSchema \/ NewEngine \/ SyncNext \/ AsyncNext

Spec == Init /\ [][Next]_vars

\* one engine at a time
SyncInit == Init /\ engine = "sync"
SyncSpecNext == BuildSchema \/ NewEngine \/ SyncNext
SyncSpec == SyncInit /\ [][SyncSpecNext]_vars

AsyncInit == Init /\ engine = "async"
AsyncSpecNext == BuildSchema \/ NewEngine \/ AsyncNext
AsyncSpec == AsyncInit /\ [][AsyncSpecNext]_vars

\* The decorators, one at a time; the data layer stays as constructed.
DecoInit ==
    /\ engine = "sync"
    /\ phase = "new"
    /\ tabledef = <<>>
    /\ self = NoSelf
    /\ disk = EmptyDb
    /\ rw = [readers |-> {}, writer |-> 0]
    /\ pc = [t \in Callers |-> "idle"]
    /\ op = [t \in Callers |-> "none"]
    /\ myconn = [t \in Callers |-> 0]
    /\ selfConn = 0
    /\ conns = <<>>
    /\ reopen = [t \in Callers |-> FALSE]
    /\ addLog = <<>>
    /\ ret = NoEvent
    /\ unit \in {"fallback", "cache", "schedule"}
    /\ IF unit = "fallback" THEN FallbackerInit ELSE fb = NoFallbacker
    /\ cw = CacheWrapper
    /\ sch = Scheduler

DecoNext ==
    \/ RegisterFallback
    \/ CallFallbacker
    \/ Tick
    \/ \E t \in Callers :
          \/ CacheWrapper_enter(t)
          \/ CacheWrapper_func(t)
          \/ CacheWrapper_return(t)
    \/ Scheduler_start
    \/ Scheduler_thread
    \/ Scheduler_call

DecoSpec == DecoInit /\ [][DecoNext]_vars

\* a thread that has been started runs
FairDecoSpec == DecoSpec /\ WF_vars(Scheduler_thread)

---------------------------------------------------------------------------
\* Properties.

\* the content a call made now works on: the file for the blocking engine
\* (a fresh connection per call) and for a cooperative engine without a
\* connection, else what self._conn sees
EngineView ==
    IF engine = "async" /\ selfConn # 0 THEN View(selfConn) ELSE disk

\* the step is the return (or raise) of a call of method o ending as k: a
\* caller comes back from its statement, or a call ends before it had one
Returns(o, k) ==
    /\ \/ ret' # ret
       \/ \E t \in Callers : pc[t] \in {"exec", "execute", "closed"} /\ pc'[t] = "idle"
    /\ ret'.op = o
    /\ ret'.kind = k

IdFilter(i) == [k \in {"id"} |-> IntVal(i)]

\* C1: after add(r) has returned id i, search(id=i) returns exactly one
\* record, which maps every schema field to the value r gave it and id to i
\* (both engines).
C1_RoundTrip ==
    (ret.op = "add" /\ ret.kind = "ok") =>
        LET res == search(EngineView, self, FALSE, IdFilter(ret.id)) IN
        /\ res.kind = "ok"
        /\ res.val = <<("id" :> IntVal(ret.id)) @@ ret.item>>

\* the case of C1: an add has returned and its record is found
C1_Witness ==
    /\ ret.op = "add" /\ ret.kind = "ok"
    /\ Len(search(EngineView, self, FALSE, IdFilter(ret.id)).val) = 1

\* C2: add with a record whose key set is not exactly the schema's field
\* set raises the key-validation error, and the call that raises it leaves
\* every stored record as it was; an add that returns was given exactly the
\* schema's fields.
C2_BadKeysRejected ==
    phase = "ready" =>
        \A item \in AddInputs(tabledef) :
            DOMAIN item # FieldNames(tabledef) =>
                add(EngineView, self, item) = KeysValidationFailure(EngineView)

C2_AddReturns ==
    /\ Returns("add", "KeysValidationFailure") =>
           UNCHANGED <<disk, conns, selfConn, rw, pc, addLog>>
    /\ Returns("add", "ok") => DOMAIN ret'.item = FieldNames(tabledef)

C2_FullMatch == []C2_BadKeysRejected /\ [][C2_AddReturns]_vars

\* the case of C2: an add was refused for its keys while records are stored
C2_Witness ==
    /\ ret.op = "add" /\ ret.kind = "KeysValidationFailure"
    /\ DOMAIN EngineView.rows # {}

\* every content some caller can see: the file and each connection's view
Views == {disk} \cup {View(c) : c \in DOMAIN conns}

\* no caller sees other content after the step than before it
StoredUnchanged ==
    /\ disk' = disk
    /\ DOMAIN conns' = DOMAIN conns
    /\ \A c \in DOMAIN conns : ViewOf(conns', disk', c) = View(c)

\* modify(id, info) on content db set exactly the fields of info on the
\* record id and left everything else, or left all as it was when no record
\* has that id
ModifySets(db, after, item_id, info) ==
    IF item_id \in DOMAIN db.rows
    THEN after = [db EXCEPT !.rows[item_id] = info @@ db.rows[item_id]]
    ELSE after = db

C3_ModifyOnViews ==
    phase = "ready" =>
        \A db \in Views : \A item_id \in Ids, info \in ModifyInputs(tabledef) :
            LET r == modify(db, self, item_id, info) IN
            IF DOMAIN info = {} THEN r = Ok(db, 0)
            ELSE IF ~(DOMAIN info \subseteq FieldNames(tabledef))
            THEN r = KeysValidationFailure(db)
            ELSE \/ r.kind = "StorageError" /\ r.db = db
                 \/ r.kind = "ok" /\ ModifySets(db, r.db, item_id, info)

\* some modify(id, info) that returns takes content before to content after
ModifyEffect(before, after) ==
    \E item_id \in Ids, info \in ModifyInputs(tabledef) :
        LET r == modify(before, self, item_id, info) IN
        r.kind = "ok" /\ after = r.db

\* a modify that raises leaves all content as it was; one that returns has
\* changed what its connection sees as modify prescribes, and nothing else
C3_ModifyReturns ==
    /\ \A k \in {"KeysValidationFailure", "StorageError", "ClosedError"} :
           Returns("modify", k) => StoredUnchanged
    /\ Returns("modify", "ok") =>
           IF engine = "sync" THEN ModifyEffect(disk, disk')
           ELSE /\ disk' = disk
                /\ \/ conns' = conns
                   \/ \E c \in DOMAIN conns :
                         /\ ModifyEffect(View(c), ViewOf(conns', disk', c))
                         /\ \A d \in DOMAIN conns \ {c} : conns'[d] = conns[d]

NoReservedField ==
    \A i \in DOMAIN tabledef : Lower(tabledef[i].name) \notin RESERVED_COLUMNS

\* s contains sub as a substring
Contains(sub, s) ==
    \E i \in 1..(Len(s) - Len(sub) + 1) : SubSeq(s, i, i + Len(sub) - 1) = sub

\* the record of id in content db satisfies the filter key = v as C4 reads it
Satisfies(db, id, key, v, fuzzy) ==
    LET stored == ColumnValue(db, id, key) IN
    IF fuzzy /\ DictGet(self.datadef_with_id, key) = "str"
    THEN IsText(stored) /\ IsText(v) /\ Contains(Chars(v), Chars(stored))
    ELSE stored = v

\* the stored record with this id, as search renders it
RecordOf(db, id) == ("id" :> IntVal(id)) @@ db.rows[id]

\* C4: search returns exactly the stored records that satisfy every filter:
\* on a text field with fuzzy the stored value contains the filter value as a
\* substring, in every other case the stored value equals the filter value
\* (checked on the schemas without a reserved name).
C4_SearchSemantics ==
    (phase = "ready" /\ NoReservedField /\ EngineView.exists) =>
        \A fuzzy \in BOOLEAN, info \in SearchInputs(tabledef) :
            search_valid(self, info) =>
                LET res == search(EngineView, self, fuzzy, info) IN
                /\ res.kind = "ok"
                /\ Range(res.val) =
                       {RecordOf(EngineView, id) :
                           id \in {i \in DOMAIN EngineView.rows :
                                      \A key \in DOMAIN info :
                                         Satisfies(EngineView, i, key, info[key], fuzzy)}}

\* the threads of the blocking engine that are running the statement of o
Executing(o) == {t \in Callers : pc[t] = "exec" /\ op[t] = o}

\* C5: in the blocking engine, while add, delete, modify, table creation or
\* vacuum runs its statement no other call runs one (so an add called
\* during a search runs its statement only after the search has finished);
\* searches may run theirs together.
C5_WriterExcludesAll ==
    \A t \in Callers :
        (pc[t] = "exec" /\ op[t] # "search") =>
            /\ rw.writer = t /\ rw.readers = {}
            /\ \A u \in Callers \ {t} : pc[u] # "exec"

\* the case of C5: two searches run their statements at the same time
C5_Witness == Cardinality(Executing("search")) = 2

\* an add returns: its id is new and larger than all returned before, and
\* the table holds one record more, the one given
C6_AddReturns ==
    addLog' # addLog =>
        LET i == ret'.id IN
        /\ addLog' = Append(addLog, i)
        /\ \A n \in DOMAIN addLog : addLog[n] < i
        /\ i \notin DOMAIN disk.rows
        /\ disk' = [disk EXCEPT !.rows = (i :> ret'.item) @@ disk.rows, !.seq = i]

\* C6: in the blocking engine adds never run their statements at the same
\* time, and every add that returns has put its one record in the table
\* under an id larger than the ids of all adds that held the lock before.
C6_AddsSerialized ==
    /\ [](Cardinality(Executing("add")) <= 1)
    /\ [][C6_AddReturns]_vars

\* the case of C6: MaxAdds adds have returned and all their records are held
C6_Witness ==
    /\ engine = "sync"
    /\ Len(addLog) = MaxAdds
    /\ DOMAIN disk.rows = Range(addLog)

\* C7: in the cooperative engine at most one call at a time is between
\* obtaining its cursor and finishing its statement.
C7_OneCallAtATime ==
    Cardinality({t \in Callers : pc[t] = "execute"}) <= 1

\* C8: no schema is built, and no engine exists, with a field whose
\* lower-cased name is reserved (both engines, both construction paths).
C8_ReservedRejected ==
    phase \in {"schema", "ready", "failed"} => NoReservedField

\* C9: every add that returns gives an id larger than the id of every add
\* that returned before it, and no stored record has an id add did not give.
C9_AddStep ==
    /\ addLog' # addLog =>
           \A n \in DOMAIN addLog : addLog[n] < addLog'[Len(addLog')]
    /\ \A db \in Views : DOMAIN db.rows \subseteq Range(addLog)

C9_IdsNeverReused == [][C9_AddStep]_vars

\* the statement of a mutating method, refused, leaves content db as it was
RefusedKeeps(db) ==
    /\ \A item \in AddInputs(tabledef) :
           LET r == add(db, self, item) IN r.kind # "ok" => r.db = db
    /\ \A item_id \in Ids :
           /\ LET r == delete(db, item_id) IN r.kind # "ok" => r.db = db
           /\ \A info \in ModifyInputs(tabledef) :
                  LET r == modify(db, self, item_id, info) IN
                  r.kind # "ok" => r.db = db

C10_RefusedKeepsAll == phase = "ready" => \A db \in Views : RefusedKeeps(db)

\* a call of add, modify or delete that raises the storage engine's error
\* leaves what every caller sees, and the ids given so far, as they were
C10_RaiseKeepsAll ==
    \A o \in {"add", "modify", "delete"} :
        Returns(o, "StorageError") => StoredUnchanged /\ addLog' = addLog

\* C10: when the storage engine refuses the statement of add, modify or
\* delete, the error reaches the caller and the stored records are the same
\* as before the call.
C10_NoPartialWrites == []C10_RefusedKeepsAll /\ [][C10_RaiseKeepsAll]_vars

\* the case of C10: the blocking engine has refused an add (its table
\* exists, so a constraint refused it) and the records are still there
C10_Witness ==
    /\ engine = "sync"
    /\ ret.op = "add" /\ ret.kind = "StorageError"
    /\ DOMAIN disk.rows # {}

\* the content the statement of caller t runs on, before and after the step
TaskView(t) == IF engine = "async" THEN View(myconn[t]) ELSE disk
TaskViewAfter(t) == IF engine = "async" THEN ViewOf(conns', disk', myconn[t]) ELSE disk'

\* caller t comes back from the statement of method o
Finishes(t, o) == pc[t] \in {"exec", "execute"} /\ pc'[t] = "idle" /\ ret'.op = o

\* content after is content db without the record id, all else the same
DeleteRemoves(db, after, id) ==
    /\ after.exists = db.exists /\ after.seq = db.seq
    /\ DOMAIN after.rows = DOMAIN db.rows \ {id}
    /\ \A r \in DOMAIN after.rows : after.rows[r] = db.rows[r]

\* on every content a caller can see, delete(id) raises nothing, removes the
\* record id and no other (none when no record has the id), and a second
\* delete(id) changes nothing
C11_DeleteOnViews ==
    phase = "ready" =>
        \A db \in Views : \A item_id \in 1..(MaxAdds + 1) :
            db.exists =>
                LET r == delete(db, item_id) IN
                /\ r.kind = "ok"
                /\ DeleteRemoves(db, r.db, item_id)
                /\ delete(r.db, item_id) = Ok(r.db, 0)

\* a delete call on an existing table returns, having removed one id's record
\* at most from what it works on
C11_DeleteReturns ==
    \A t \in Callers :
        (Finishes(t, "delete") /\ TaskView(t).exists) =>
            /\ ret'.kind = "ok"
            /\ \E item_id \in Ids : DeleteRemoves(TaskView(t), TaskViewAfter(t), item_id)

\* C11: delete(id) with an id no stored record has returns without error and
\* leaves every record unchanged; delete(id) of an existing id removes exactly
\* that record; a second delete(id) leaves the table as the first left it
\* (both engines).
C11_IdempotentDelete == []C11_DeleteOnViews /\ [][C11_DeleteReturns]_vars

\* the case of C11: a delete has returned and a record add had stored is gone
C11_Witness ==
    /\ ret.op = "delete" /\ ret.kind = "ok"
    /\ \E n \in DOMAIN addLog : addLog[n] \notin DOMAIN EngineView.rows

\* on every content a caller can see in which the table exists, the
\* statement of create_table raises nothing and changes nothing
C12_CreateOnViews ==
    phase = "ready" =>
        \A db \in Views : db.exists => create_table(db, self) = Ok(db, 0)

\* a create_table call made on an existing table after an add has returned
\* returns, and leaves what every caller sees and the ids given as they were
C12_CreateReturns ==
    \A t \in Callers :
        (Finishes(t, "create_table") /\ TaskView(t).exists /\ addLog # <<>>) =>
            /\ ret'.kind = "ok"
            /\ StoredUnchanged
            /\ addLog' = addLog

\* C12: table creation called again after records were added does not raise
\* and leaves every stored record and the id sequence unchanged (both
\* engines).
C12_CreateIdempotent == []C12_CreateOnViews /\ [][C12_CreateReturns]_vars

\* the case of C12: create_table has returned on a table that holds records
C12_Witness ==
    /\ ret.op = "create_table" /\ ret.kind = "ok"
    /\ DOMAIN EngineView.rows # {}

\* a step of close() and of the calls that follow it:
\* close() with no connection held returns at once and changes nothing; when
\* close() returns the instance holds no connection; a call that found no
\* connection after a close had returned opens a new one, makes it the
\* instance's and works on it; and such a call does not fail on a closed
\* connection
C13_Step ==
    /\ (selfConn = 0 /\ pc' = pc /\ Returns("close", "ok")) =>
           UNCHANGED <<schemaVars, disk, rw, op, asyncVars, addLog>>
    /\ \A t \in Callers :
           /\ (pc[t] = "closed" /\ pc'[t] = "idle") => selfConn' = 0
           /\ (reopen[t] /\ pc[t] = "connecting" /\ pc'[t] = "execute") =>
                  /\ Len(conns') = Len(conns) + 1
                  /\ myconn'[t] = Len(conns')
                  /\ selfConn' = Len(conns')
                  /\ conns'[Len(conns')] = NewConn
           /\ (reopen[t] /\ pc[t] = "execute" /\ pc'[t] = "idle") =>
                  ret'.kind # "ClosedError"

\* C13: in the cooperative engine close() without an open connection is a
\* no-op; after close() has returned the instance holds no connection, and
\* every later operation opens a new connection and succeeds instead of
\* failing on a closed one, for any number of close/operate cycles.
C13_CloseAndReconnect == [][C13_Step]_vars

\* the case of C13: a call made after a close has returned has reconnected
\* and returned
C13_Witness ==
    /\ engine = "async"
    /\ \E c \in DOMAIN conns : conns[c].st = "closed"
    /\ selfConn # 0 /\ conns[selfConn].st # "closed"
    /\ ret.op \in {"add", "search"} /\ ret.kind = "ok"

\* the declared types the type mapper has no storage type for
UnmappedTypes ==
    {cdef.elems[i].type : cdef \in CDefs, i \in {1}}
        \ {"str", "int", "float", "bytes", "None"}

\* C14: the type mapper gives the absent result for a type that is not
\* mapped, and no schema is built, no engine made and no table created with
\* a field whose column would be rendered with the absent result as its
\* storage type.
C14_UnknownTypeRejected ==
    /\ \A t \in UnmappedTypes : type_to_sqlitetype(t) = Absent
    /\ (phase \in {"schema", "ready", "failed"} \/ \E db \in Views : db.exists) =>
           \A i \in DOMAIN tabledef : ColumnDef(tabledef[i]).type # Absent

\* the case of C14: the blocking engine has issued CREATE TABLE with a column
\* of the absent type, and the table exists
C14_Witness ==
    /\ engine = "sync" /\ phase = "ready" /\ disk.exists
    /\ \E i \in DOMAIN tabledef : ColumnDef(tabledef[i]).type = Absent

\* C15: in the blocking engine a thread that is not inside a call holds the
\* reader/writer lock in neither mode, whichever way its calls ended, and
\* when no call is in progress the lock is free, so that the next call of
\* any method enters at once.
C15_NoLockAcrossCalls ==
    /\ \A t \in Callers :
           pc[t] = "idle" => t \notin rw.readers /\ rw.writer # t
    /\ (\A t \in Callers : pc[t] = "idle") => CanWrite(rw) /\ CanRead(rw)

\* the case of C15: the storage engine has refused the statement of an add or
\* a modify, the call has raised, and no call is in progress
C15_Witness ==
    /\ engine = "sync"
    /\ ret.op \in {"add", "modify"} /\ ret.kind = "StorageError"
    /\ \A t \in Callers : pc[t] = "idle"

\* the place in funcs of the first function that does not raise a tolerable
\* exception, 0 when every one does
FirstSettling(tol_excs, funcs, does) ==
    LET S == {i \in DOMAIN funcs :
                 does[funcs[i]] = "return" \/ ~Tolerated(does[funcs[i]], tol_excs)}
    IN  IF S = {} THEN 0 ELSE CHOOSE i \in S : \A j \in S : i <= j

\* calls of the functions fs, in order, each with arguments args
CallsOf(fs, args) == [i \in DOMAIN fs |-> <<fs[i], args>>]

\* C16: a call of the fallback wrapper runs the wrapped function and returns
\* its result if it returns; if it raises a tolerable exception and fallbacks
\* are registered they are called in registration order with the same
\* arguments up to the first that does not raise a tolerable exception, whose
\* result (or exception) is the call's; FallbackFailure if all raise
\* tolerable ones; with none registered the original exception; an exception
\* that is not tolerable propagates at once.
C16_Fallback ==
    (unit = "fallback" /\ fb.last.made) =>
        LET L == fb.last
            tol == fb.obj.tol_excs
            first == L.does["func"]
            k == FirstSettling(tol, L.funcs, L.does)
        IN  IF first = "return"
            THEN /\ L.out.res = Returned(<<"func", L.args>>)
                 /\ L.out.called = CallsOf(<<"func">>, L.args)
            ELSE IF ~Tolerated(first, tol) \/ L.funcs = <<>>
            THEN /\ L.out.res = Raised(first)
                 /\ L.out.called = CallsOf(<<"func">>, L.args)
            ELSE IF k = 0
            THEN /\ L.out.res = Raised("FallbackFailure")
                 /\ L.out.called = CallsOf(<<"func">> \o L.funcs, L.args)
            ELSE /\ L.out.res = IF L.does[L.funcs[k]] = "return"
                                THEN Returned(<<L.funcs[k], L.args>>)
                                ELSE Raised(L.does[L.funcs[k]])
                 /\ L.out.called = CallsOf(<<"func">> \o SubSeq(L.funcs, 1, k), L.args)

\* the case of C16: the wrapped function and the first fallback raised
\* tolerable exceptions, the second fallback one that is not tolerable,
\* which the call raised
C16_Witness ==
    /\ unit = "fallback" /\ fb.last.made
    /\ Len(fb.last.funcs) = 2
    /\ Len(fb.last.out.called) = 3
    /\ fb.last.out.res.kind = "raise"
    /\ ~Tolerated(fb.last.out.res.val, fb.obj.tol_excs)

\* the threads inside the wrapped function of the CacheWrapper
Running == {t \in Callers : cw.pc[t] = "in_func"}

\* the time since the last invocation that gave a result
Age == cw.now - cw.last_call

\* one step of a call of the CacheWrapper: the function is invoked only
\* Expire or more after the last invocation that gave a result, it is
\* invoked by a call made that late, and its result replaces the cached one
C17_CallStep ==
    \A t \in Callers :
       /\ cw.pc[t] = "idle" /\ cw'.pc[t] = "in_func" => Age >= Expire
       /\ cw.pc[t] = "idle" /\ cw'.pc[t] = "leaving" => Age < Expire
       /\ cw.pc[t] = "in_func" /\ cw'.pc[t] = "leaving" =>
              cw'.cache \in FuncResults /\ cw'.last_call = cw.now
       /\ cw.pc[t] = "leaving" /\ cw'.pc[t] = "idle" =>
              cw'.out[t] = Returned(cw.cache)

\* C17: after a call that invoked the wrapped function, a call made less
\* than Expire later returns the cached result without invoking the function
\* again, whatever the result was; the first call made Expire or more after
\* the last invocation invokes it again and replaces the cached result; the
\* function never runs in two threads at once.
C17_Cache == [][C17_CallStep]_vars /\ [](Cardinality(Running) <= 1)

\* the function has returned None and is invoked again before Expire has passed
C17_Witness ==
    /\ unit = "cache"
    /\ cw.last_call > 0
    /\ cw.cache = NULL
    /\ Age < Expire
    /\ Running # {}

\* a direct call of the wrapper invokes the function once, in the caller
C18_CallStep ==
    sch'.by_call # sch.by_call =>
        sch'.by_call = sch.by_call + 1 /\ sch'.by_thread = sch.by_thread

\* C18: after start() the function is invoked again and again by the
\* thread, not just once; a direct call of the wrapper invokes it exactly once.
C18_Periodic ==
    /\ (sch.thread = "started") ~> (sch.by_thread >= 2)
    /\ [][C18_CallStep]_vars

\* the thread started by start() has invoked the function once and has ended
C18_Witness ==
    /\ unit = "schedule"
    /\ sch.thread = "stopped"
    /\ sch.by_thread = 1

\* the methods that change records
Mutations == {"add", "modify", "delete"}

\* when a mutation returns without error, the file (what a connection opened
\* later reads) holds what the connection that performed it sees, and the
\* record of an add is in the file under the id that add returned
C19_ReturnStep ==
    \A t \in Callers : \A o \in Mutations :
        (Finishes(t, o) /\ ret'.kind = "ok") =>
            /\ disk' = TaskViewAfter(t)
            /\ o = "add" => ret'.id \in DOMAIN disk'.rows

\* C19: every mutation is committed by the time the call returns, in both
\* engines: the effect of a successful add, modify or delete is still seen
\* after the connection that performed it is closed and a new one is opened.
C19_Committed == [][C19_ReturnStep]_vars

\* add has returned an id, the connection is closed, and the file has no
\* record of that id although no delete was made
C19_Witness ==
    /\ engine = "async"
    /\ selfConn = 0
    /\ \A c \in DOMAIN conns : conns[c].st = "closed"
    /\ ret.op = "close"
    /\ addLog # <<>>
    /\ DOMAIN disk.rows = {}
    /\ disk.exists

\* the methods that validate the keys of their argument
Validating == {"add", "modify", "search"}

\* a call of method o by caller t, of the engine in use
MethodStep(t, o) ==
    CASE o = "add" -> sync_add(t) \/ async_add(t)
      [] o = "modify" -> sync_modify(t) \/ async_modify(t)
      [] o = "search" -> sync_search(t) \/ async_search(t)

\* the schema has an argument of method o that fails key validation
HasInvalid(o) ==
    CASE o = "add" -> \E item \in AddInputs(tabledef) : ~add_valid(self, item)
      [] o = "modify" -> \E info \in ModifyInputs(tabledef) :
                            DOMAIN info # {} /\ ~modify_valid(self, info)
      [] o = "search" -> \E info \in SearchCalls(tabledef) : ~search_valid(self, info)

\* caller t has its call of o raise KeysValidationFailure
FailsValidation(t, o) ==
    MethodStep(t, o) /\ ret'.op = o /\ ret'.kind = "KeysValidationFailure"

\* a call that fails key validation changes nothing: no lock, no connection,
\* no statement, no other caller's position
C20_FailStep ==
    \A o \in Validating :
        Returns(o, "KeysValidationFailure") =>
            UNCHANGED <<schemaVars, disk, rw, pc, op, asyncVars, addLog>>

\* a caller that is not inside a call can have its call fail key validation
\* whatever the lock, the connections and the other callers are doing
C20_NeverWaits ==
    phase = "ready" =>
        \A t \in Callers : \A o \in Validating :
            (pc[t] = "idle" /\ HasInvalid(o)) => ENABLED FailsValidation(t, o)

\* C20: key validation precedes all I/O in add, modify and search of both
\* engines: a call that fails key validation raises before it acquires the
\* lock, obtains a connection or executes a statement, so it never waits for
\* a concurrent caller and leaves connection and table state untouched.
C20_ValidationFirst == [][C20_FailStep]_vars /\ []C20_NeverWaits

\* a call has failed key validation while another caller holds the write
\* lock of the blocking engine
C20_Witness ==
    /\ ret.op \in Validating
    /\ ret.kind = "KeysValidationFailure"
    /\ rw.writer # 0

\* the same while another task of the cooperative engine awaits its statement
C20_WitnessAsync ==
    /\ ret.op \in Validating
    /\ ret.kind = "KeysValidationFailure"
    /\ \E t \in Callers : pc[t] = "execute"

\* the connections the instance has opened and not closed
OpenConns == {c \in DOMAIN conns : conns[c].st # "closed"}

\* C21: a cooperative engine owns at most one open connection at a time and
\* never loses track of one: every connection it has opened and not closed
\* is the one self._conn holds, so the tasks that find a connection use that
\* one, and once close() has set self._conn to None none is left open.
C21_OneConnection ==
    engine = "async" =>
        /\ Cardinality(OpenConns) <= 1
        /\ \A c \in OpenConns : c = selfConn

\* two tasks were inside aiosqlite.connect together: two connections are
\* open and self._conn holds the second
C21_Witness ==
    /\ engine = "async"
    /\ Cardinality(OpenConns) = 2
    /\ selfConn \in OpenConns

\* C22: every field name that schema construction accepts is usable as a
\* key in every operation: for each field f of the schema of an engine,
\* modify(id, f=v) and search(f=v) hand f to the method as a column; no field
\* name is taken by the flag of search or by the item_id of modify.
C22_FieldsUsable ==
    phase = "ready" =>
        \A f \in FieldNames(tabledef) :
            /\ \A kw \in ModifyInputs(tabledef) :
                   f \in DOMAIN kw => modify_bind(kw) = Bound(FALSE, kw)
            /\ \A kw \in SearchInputs(tabledef) :
                   f \in DOMAIN kw =>
                       search_bind(engine, FALSE, kw) = Bound(FALSE, kw)

\* modify(id, item_id=v) on a schema with a field item_id has raised TypeError
C22_Witness ==
    /\ phase = "ready"
    /\ "item_id" \in FieldNames(tabledef)
    /\ ret.op = "modify" /\ ret.kind = "TypeError"

\* search(fuzzy_match=v) of the blocking engine on a schema with a field
\* fuzzy_match has returned: the keyword went to the flag
C22_WitnessFlag ==
    /\ engine = "sync" /\ phase = "ready"
    /\ "fuzzy_match" \in FieldNames(tabledef)
    /\ ret.op = "search" /\ ret.kind = "ok"

====
